---------------------------- MODULE Spec2Model ----------------------------
(***************************************************************************)
(* Notification-logs backend (src/backend-server.js and its continuation   *)
(* src/unnamed/part_000): three Express endpoints that reduce the rows of  *)
(* notification.logs into the structures the dashboard displays, and the  *)
(* dashboard (src/App.tsx) that fetches the three results into React       *)
(* state.                                                                  *)
(*                                                                         *)
(* Calendar dates are day numbers; created_at is a timestamp counted in    *)
(* ticks, TicksPerDay ticks to a day, and DATE() truncates it to its day.  *)
(* The table notification.logs is a bag of rows; a SELECT without a total  *)
(* ORDER BY may deliver its rows in any order the ORDER BY allows.         *)
(***************************************************************************)
EXTENDS Integers, Sequences, FiniteSets, Bags, TLC

VARIABLES
    pool,     \* the server has a connection pool (DATABASE_URL was set)
    logs,     \* the rows of notification.logs
    today,    \* the calendar day on the clock
    reqs,     \* the requests the server holds
    app,      \* the React state of the dashboard (src/App.tsx)
    fetches,  \* the fetch() calls the dashboard has made, in call order
    browser   \* the browser's clock: minute of the UTC day, and time zone

vars == <<pool, logs, today, reqs, app, fetches, browser>>

---------------------------------------------------------------------------
(* Bounds of the model *)

\* most rows of notification.logs when the summary endpoint is explored
MaxSummaryRows == 2

\* most rows of notification.logs when the template endpoints are explored
MaxTemplateRows == 3

\* most rows of notification.logs when all three endpoints are explored
MaxServerRows == 2

\* most clicks on Apply Filter and the quick-select buttons of the dashboard
MaxClicks == 1

\* resolution of a timestamp: ticks in one calendar day
TicksPerDay == 2

\* number of midnights the clock may pass
MaxMidnights == 1

\* Math.random() yields one of 0/RandomSteps .. (RandomSteps-1)/RandomSteps
RandomSteps == 2

---------------------------------------------------------------------------
(* Program constants *)

\* INTERVAL '7 days' of the template-stats window
WindowDays == 7

\* width of the zero-padded day field written by TO_CHAR(.., 'YYYY-MM-DD')
DateWidth == 2

\* the calendar day on which the server starts
FirstToday == WindowDays + 4

LastToday == FirstToday + MaxMidnights

\* requests the server can hold at once (one slot is used per request)
ReqIds == {1, 2}

DeclaredEventTypes == <<"payment-reminder-job", "session-reminder">>

DeclaredChannels == <<"push", "whatsapp">>

AllowedTemplates ==
    { "late_fee_payment_reminder_v3",
      "late_fee_payment_reminder_v4",
      "monthly_overdue_payment_reminder_v2",
      "longterm_overdue_payment_reminder_v3",
      "monthly_payment_reminder_v2",
      "longterm_payment_reminder_v2" }

\* a Date counts time from the epoch; here in minutes, on the UTC time line
MinutesPerDay == 1440

\* a time zone: minutes to add to UTC to get local time, before and from the
\* instant `change` at which the zone's offset changes (daylight saving time
\* ends or begins); a zone without such a change has before = after
Zones ==
    { [name |-> "UTC", before |-> 0, after |-> 0, change |-> 0],
      [name |-> "Asia/Kolkata", before |-> 330, after |-> 330, change |-> 0],
      [name |-> "America/Los_Angeles", before |-> -420, after |-> -480,
       change |-> (FirstToday - 1) * MinutesPerDay + 540],
      [name |-> "Europe/Berlin", before |-> 60, after |-> 120,
       change |-> (FirstToday - 1) * MinutesPerDay + 60] }

\* minutes of the UTC day at which the user acts: half past midnight, noon,
\* half past eleven at night
BrowserMinutes == {30, 720, 1410}

\* a browser in the UTC zone at noon
UtcNoon ==
    [minute |-> 720, zone |-> CHOOSE z \in Zones : z.name = "UTC"]

\* new Date(): the instant on the browser's clock
Now == today * MinutesPerDay + browser.minute

\* date.toISOString().split('T')[0]: the UTC calendar day of an instant
ISODate(t) == t \div MinutesPerDay

\* the zone's offset at instant t
OffsetAt(zone, t) == IF t < zone.change THEN zone.before ELSE zone.after

\* local time of instant t: minutes on the local time line
LocalTime(zone, t) == t + OffsetAt(zone, t)

\* date.getDate(): the local calendar day of instant t (as a day number, so
\* that getDate() - days needs no month arithmetic)
getDate(zone, t) == LocalTime(zone, t) \div MinutesPerDay

\* the instant at which the zone's clocks show local time `local`
FromLocal(zone, local) ==
    IF local - zone.before < zone.change THEN local - zone.before
    ELSE local - zone.after

\* date.setDate(day): the local calendar day is replaced, the local time of
\* day is kept, and the result is the instant with those local fields
setDate(zone, t, day) ==
    FromLocal(zone, day * MinutesPerDay + (LocalTime(zone, t) % MinutesPerDay))

\* the useState initial values of App on calendar day `day`; a value that
\* may be null is a sequence of at most one element
InitialApp(day) ==
    [startDate |-> day, endDate |-> day,
     apiResponse |-> <<>>, templateData |-> <<>>, todayTemplateData |-> <<>>,
     isLoading |-> TRUE, isLoadingTemplate |-> TRUE, isLoadingToday |-> TRUE,
     error |-> <<>>]

---------------------------------------------------------------------------
(* Values a row of notification.logs is drawn from *)

EventTypeValues == {"payment-reminder-job", "session-reminder", "otp-job"}

ChannelValues == {"push", "whatsapp", "email"}

TemplateValues ==
    {"late_fee_payment_reminder_v3", "monthly_payment_reminder_v2", "welcome_v1"}

StatusValues == {"success", "failed"}

\* first and last tick of a calendar day
FirstTick(d) == d * TicksPerDay

LastTick(d) == d * TicksPerDay + (TicksPerDay - 1)

\* timestamps on both sides of the two midnights around the first day
SummaryRowStamps ==
    {LastTick(FirstToday - 1), FirstTick(FirstToday), LastTick(FirstToday),
     FirstTick(FirstToday + 1)}

\* timestamps on both sides of the two ends of the 7-day window, two on the
\* window's last day, and one today
TemplateRowStamps ==
    {LastTick(FirstToday - WindowDays - 1), FirstTick(FirstToday - WindowDays),
     FirstTick(FirstToday - 1), LastTick(FirstToday - 1), FirstTick(FirstToday)}

\* days a caller may name in startDate / endDate
ParamDays == {FirstToday - 1, FirstToday}

SummaryRows ==
    { [event_type |-> e, notification_type |-> n,
       template |-> "monthly_payment_reminder_v2", status |-> "success",
       created_at |-> ts] :
        e \in EventTypeValues, n \in ChannelValues,
        ts \in SummaryRowStamps }

TemplateRows ==
    { [event_type |-> "payment-reminder-job", notification_type |-> "whatsapp",
       template |-> t, status |-> s, created_at |-> ts] :
        t \in TemplateValues, s \in StatusValues, ts \in TemplateRowStamps }

\* rows for all three endpoints at once: two rows every query keeps when
\* their day fits, one of a declared event type on a channel the summary
\* query leaves out and with a status the template queries leave out, and
\* one that no query keeps; each on the last day of the window and today
ServerRows ==
    { [event_type |-> k[1], notification_type |-> k[2], template |-> k[3],
       status |-> k[4], created_at |-> ts] :
        k \in { <<"payment-reminder-job", "push",
                  "late_fee_payment_reminder_v3", "success">>,
                <<"session-reminder", "whatsapp",
                  "monthly_payment_reminder_v2", "success">>,
                <<"payment-reminder-job", "email",
                  "monthly_payment_reminder_v2", "failed">>,
                <<"otp-job", "push", "welcome_v1", "success">> },
        ts \in {LastTick(FirstToday - 1), FirstTick(FirstToday)} }

RECURSIVE BagsUpTo(_, _)
\* every bag of at most n elements of U
BagsUpTo(U, n) ==
    IF n = 0 THEN {EmptyBag}
    ELSE LET smaller == BagsUpTo(U, n - 1)
         IN  smaller \cup {b (+) SetToBag({r}) : b \in smaller, r \in U}

RECURSIVE SeqsOfBag(_)
\* every order in which the elements of bag b can be delivered
SeqsOfBag(b) ==
    IF DOMAIN b = {} THEN {<<>>}
    ELSE UNION { {<<r>> \o s : s \in SeqsOfBag(b (-) SetToBag({r}))} : r \in DOMAIN b }

\* the sub-bag of b made of its elements in S
SelectBag(b, S) == [r \in DOMAIN b \cap S |-> b[r]]


---------------------------------------------------------------------------
(* The row store: what PostgreSQL computes for the three query texts *)

\* DATE(created_at): the calendar day of a timestamp
DATE(ts) == ts \div TicksPerDay

\* mutant of Between: BETWEEN SYMMETRIC, the bounds taken in either order
Between_Symmetric(x, lo, hi) == (lo <= x /\ x <= hi) \/ (hi <= x /\ x <= lo)

\* x BETWEEN lo AND hi
Between(x, lo, hi) == lo <= x /\ x <= hi

\* mutant of SummaryWhere: the query text the dashboard displays (mainQuery),
\* which has no notification_type condition
SummaryWhere_AnyChannel(nl, p1, p2) ==
    /\ nl.event_type \in {"payment-reminder-job", "session-reminder"}
    /\ p1 <= DATE(nl.created_at) /\ DATE(nl.created_at) <= p2

\* WHERE clause of the summary query, $1 = p1 and $2 = p2
SummaryWhere(nl, p1, p2) ==
    /\ nl.event_type \in {"payment-reminder-job", "session-reminder"}
    /\ nl.notification_type \in {"push", "whatsapp"}
    /\ Between(DATE(nl.created_at), p1, p2)

\* the rows the summary query selects from table
SummarySelect(table, p1, p2) ==
    SelectBag(table, {nl \in DOMAIN table : SummaryWhere(nl, p1, p2)})

---------------------------------------------------------------------------
(* GET /api/notifications/summary *)

\* req.query: only the parameters the caller sent are keys of the object
QueryObjects ==
    UNION { [K -> ParamDays] : K \in SUBSET {"startDate", "endDate"} }

NoQuery == [k \in {} |-> 0]

\* mutant of OrToday: both bounds fall back to today unless both were sent
OrToday_UnlessBoth(query, key, day) ==
    IF {"startDate", "endDate"} \subseteq DOMAIN query THEN query[key] ELSE day

\* const { startDate, endDate } = req.query; const start = startDate || today
OrToday(query, key, day) == IF key \in DOMAIN query THEN query[key] ELSE day

\* the locals of one summary request
SummaryLocals(query, day) ==
    [today |-> day,
     start |-> OrToday(query, "startDate", day),
     end   |-> OrToday(query, "endDate", day)]

\* Math.floor(Math.random() * n) + base
RandomInts(n, base) == {((k * n) \div RandomSteps) + base : k \in 0 .. (RandomSteps - 1)}

\* the mockCounts objects the handler can draw
MockCounts ==
    { [e \in {"payment-reminder-job", "session-reminder"} |->
         IF e = "payment-reminder-job"
         THEN [total |-> pt, push |-> pp, whatsapp |-> pw]
         ELSE [total |-> st, push |-> sp, whatsapp |-> sw]] :
        pt \in RandomInts(500, 300), pp \in RandomInts(300, 200),
        pw \in RandomInts(200, 100), st \in RandomInts(800, 500),
        sp \in RandomInts(600, 400), sw \in RandomInts(300, 200) }

\* const counts = { ... total: 0, push: 0, whatsapp: 0 ... }
ZeroCounts ==
    [e \in {"payment-reminder-job", "session-reminder"} |->
        [total |-> 0, push |-> 0, whatsapp |-> 0]]

\* the body of the for loop, for one row
CountRow(counts, row) ==
    IF row.event_type \in DOMAIN counts
    THEN LET e == row.event_type
             n == row.notification_type
             c == [counts EXCEPT ![e].total = @ + 1]
         IN  IF n = "push" \/ n = "whatsapp"
             THEN [c EXCEPT ![e][n] = @ + 1]
             ELSE c
    ELSE counts

RECURSIVE CountRows(_, _)
\* for (const row of rows) { ... }
CountRows(counts, rows) ==
    IF rows = <<>> THEN counts
    ELSE CountRows(CountRow(counts, Head(rows)), Tail(rows))

\* mutant of SummaryList: one entry per event type that has rows
SummaryList_OnlyCounted(counts) ==
    LET Counted(x) == x.count > 0
    IN  SelectSeq(
          << [trigger |-> "payment-reminder-job", count |-> counts["payment-reminder-job"].total],
             [trigger |-> "session-reminder", count |-> counts["session-reminder"].total] >>,
          Counted)

\* const summary = [ ... ]
SummaryList(counts) ==
    << [trigger |-> "payment-reminder-job", count |-> counts["payment-reminder-job"].total],
       [trigger |-> "session-reminder", count |-> counts["session-reminder"].total] >>

\* const breakdown = { ... }
Breakdown(counts) ==
    [paymentReminder |->
        << [trigger |-> "push", count |-> counts["payment-reminder-job"].push],
           [trigger |-> "whatsapp", count |-> counts["payment-reminder-job"].whatsapp] >>,
     sessionReminder |->
        << [trigger |-> "push", count |-> counts["session-reminder"].push],
           [trigger |-> "whatsapp", count |-> counts["session-reminder"].whatsapp] >>]

\* const responseData = { dateRange: { start, end }, summary, breakdown }
ResponseData(locals, counts) ==
    [dateRange |-> [start |-> locals.start, end |-> locals.end],
     summary   |-> SummaryList(counts),
     breakdown |-> Breakdown(counts)]

\* error.message of a failed pool.query
QueryErrors == {"connect ECONNREFUSED"}

\* res.status(500).json({ error: 'Internal Server Error', message: error.message })
ErrorBody(msg) == [error |-> "Internal Server Error", message |-> msg]

---------------------------------------------------------------------------
(* Requests *)

IdleReq ==
    [endpoint |-> "none", query |-> NoQuery, locals |-> NoQuery, pc |-> "idle",
     currentDate |-> 0, settled |-> "none", sent |-> 0, status |-> 0, body |-> <<>>]

\* a slot takes a request when it holds none
Free(id) == reqs[id].pc = "idle"

\* the handler runs up to `await pool.query(...)`
Awaiting(ep, query, locals) ==
    [endpoint |-> ep, query |-> query, locals |-> locals, pc |-> "await",
     currentDate |-> 0, settled |-> "pending", sent |-> 0, status |-> 0,
     body |-> <<>>]

\* how the promise of pool.query ended: "fulfilled" with rows, "rejected"
\* with an error, or "none" when the handler returned before the query
Settle(req, how) == [req EXCEPT !.settled = how]

\* res.json(body) or res.status(500).json(body): one more response is
\* written for the request
Answered(req, status, body) ==
    [req EXCEPT !.pc = "done", !.sent = @ + 1, !.status = status, !.body = body]

\* lines 50-112: the request arrives; without a pool it is answered from mockCounts
SummaryReceive(id) ==
    /\ Free(id)
    /\ \E query \in QueryObjects :
         LET locals == SummaryLocals(query, today)
             req    == Awaiting("summary", query, locals)
         IN  IF pool
             THEN reqs' = [reqs EXCEPT ![id] = req]
             ELSE \E mockCounts \in MockCounts :
                    reqs' = [reqs EXCEPT ![id] =
                               Answered(Settle(req, "none"), 200,
                                        ResponseData(locals, mockCounts))]
    /\ UNCHANGED <<browser, pool, logs, today, app, fetches>>

\* mutant of SummaryResolve: an empty result of the query is answered from
\* mockCounts
SummaryResolve_MockWhenEmpty(id) ==
    /\ reqs[id].pc = "await"
    /\ reqs[id].endpoint = "summary"
    /\ LET locals == reqs[id].locals
       IN  \E rows \in SeqsOfBag(SummarySelect(logs, locals.start, locals.end)) :
           \E mockCounts \in MockCounts :
             reqs' = [reqs EXCEPT ![id] =
                        Answered(Settle(@, "fulfilled"), 200,
                                 ResponseData(locals,
                                     IF rows = <<>> THEN mockCounts
                                     ELSE CountRows(ZeroCounts, rows)))]
    /\ UNCHANGED <<browser, pool, logs, today, app, fetches>>

\* mutant of SummaryResolve: start and end live at module scope, so a
\* request received while this one awaited has overwritten them
SummaryResolve_SharedRange(id) ==
    /\ reqs[id].pc = "await"
    /\ reqs[id].endpoint = "summary"
    /\ LET others == {o \in ReqIds \ {id} : reqs[o].endpoint = "summary"}
           locals == IF others = {} THEN reqs[id].locals
                     ELSE reqs[CHOOSE o \in others : TRUE].locals
       IN  \E rows \in SeqsOfBag(SummarySelect(logs, locals.start, locals.end)) :
             reqs' = [reqs EXCEPT ![id] =
                        Answered(Settle(@, "fulfilled"), 200,
                                 ResponseData(locals, CountRows(ZeroCounts, rows)))]
    /\ UNCHANGED <<browser, pool, logs, today, app, fetches>>

\* lines 115-158: the query delivers its rows, the loop counts them
SummaryResolve(id) ==
    /\ reqs[id].pc = "await"
    /\ reqs[id].endpoint = "summary"
    /\ LET locals == reqs[id].locals
       IN  \E rows \in SeqsOfBag(SummarySelect(logs, locals.start, locals.end)) :
             reqs' = [reqs EXCEPT ![id] =
                        Answered(Settle(@, "fulfilled"), 200,
                                 ResponseData(locals, CountRows(ZeroCounts, rows)))]
    /\ UNCHANGED <<browser, pool, logs, today, app, fetches>>

\* mutant of SummaryReject: the catch block answers 200 with an all-zero
\* result instead of the 500
SummaryReject_Swallowed(id) ==
    /\ reqs[id].pc = "await"
    /\ reqs[id].endpoint = "summary"
    /\ reqs' = [reqs EXCEPT ![id] =
                  Answered(Settle(@, "rejected"), 200,
                           ResponseData(reqs[id].locals, ZeroCounts))]
    /\ UNCHANGED <<browser, pool, logs, today, app, fetches>>

\* lines 159-162: pool.query rejects
SummaryReject(id) ==
    /\ reqs[id].pc = "await"
    /\ reqs[id].endpoint = "summary"
    /\ \E msg \in QueryErrors :
         reqs' = [reqs EXCEPT ![id] =
                    Answered(Settle(@, "rejected"), 500, ErrorBody(msg))]
    /\ UNCHANGED <<browser, pool, logs, today, app, fetches>>

\* the response has been sent and the connection closes: the slot is free again
Close(id) ==
    /\ reqs[id].pc = "done"
    /\ reqs' = [reqs EXCEPT ![id] = IdleReq]
    /\ UNCHANGED <<browser, pool, logs, today, app, fetches>>

\* midnight passes on the clock behind new Date() and CURRENT_DATE
Midnight ==
    /\ today < LastToday
    /\ today' = today + 1
    /\ UNCHANGED <<browser, pool, logs, reqs, app, fetches>>

---------------------------------------------------------------------------
(* The summary endpoint over every small table *)

InitSummary ==
    /\ pool \in BOOLEAN
    /\ logs \in (IF pool THEN BagsUpTo(SummaryRows, MaxSummaryRows) ELSE {EmptyBag})
    /\ today = FirstToday
    /\ reqs = [id \in ReqIds |-> IdleReq]
    /\ app = InitialApp(today)
    /\ fetches = <<>>
    /\ browser = UtcNoon

NextSummary ==
    \/ SummaryReceive(1)
    \/ SummaryResolve(1)
    \/ SummaryReject(1)
    \/ Close(1)
    \/ Midnight

SpecSummary == InitSummary /\ [][NextSummary]_vars

---------------------------------------------------------------------------
(* Text values: a bigint COUNT and a TO_CHAR date reach the handler as   *)
(* strings of decimal digits, modelled as sequences of digits               *)

RECURSIVE Digits(_)
\* the decimal text of a natural number
Digits(n) == IF n < 10 THEN <<n>> ELSE Digits(n \div 10) \o <<n % 10>>

RECURSIVE PadLeft(_, _)
\* text t with zeros put before it up to width w
PadLeft(t, w) == IF Len(t) >= w THEN t ELSE PadLeft(<<0>> \o t, w)

\* mutant of TO_CHAR: a format without zero padding ('FMDD')
TO_CHAR_Unpadded(d) == Digits(d)

\* TO_CHAR(DATE(created_at), 'YYYY-MM-DD'): fixed width, zero padded
TO_CHAR(d) == PadLeft(Digits(d), DateWidth)

RECURSIVE ParseFrom(_, _)
ParseFrom(acc, t) == IF t = <<>> THEN acc ELSE ParseFrom(acc * 10 + Head(t), Tail(t))

\* parseInt(text)
parseInt(t) == ParseFrom(0, t)

RECURSIVE TextLess(_, _)
\* a sorts before b as text
TextLess(a, b) ==
    IF b = <<>> THEN FALSE
    ELSE IF a = <<>> THEN TRUE
    ELSE IF Head(a) # Head(b) THEN Head(a) < Head(b)
    ELSE TextLess(Tail(a), Tail(b))

---------------------------------------------------------------------------
(* The two template queries *)

\* template IN ( ... ) AND status = 'success'
DeliveredTemplate(r) ==
    /\ r.template \in AllowedTemplates
    /\ r.status = "success"

\* mutant of TodayWhere: the status condition is missing
TodayWhere_AnyStatus(r, cd) ==
    /\ DATE(r.created_at) = cd
    /\ r.template \in AllowedTemplates

\* WHERE clause of the template-stats-today query, cd = CURRENT_DATE
TodayWhere(r, cd) ==
    /\ DATE(r.created_at) = cd
    /\ DeliveredTemplate(r)

\* mutant of StatsWhere: the window's upper end includes CURRENT_DATE
StatsWhere_ThroughToday(r, cd) ==
    /\ DATE(r.created_at) >= cd - WindowDays
    /\ DATE(r.created_at) <= cd
    /\ DeliveredTemplate(r)

\* WHERE clause of the template-stats query, cd = CURRENT_DATE
StatsWhere(r, cd) ==
    /\ DATE(r.created_at) >= cd - WindowDays
    /\ DATE(r.created_at) < cd
    /\ DeliveredTemplate(r)

\* GROUP BY template, with COUNT AS delivered_count
TodayGroups(table, cd) ==
    LET kept == SelectBag(table, {r \in DOMAIN table : TodayWhere(r, cd)})
    IN  { [template |-> t,
           delivered_count |->
              Digits(BagCardinality(
                  SelectBag(kept, {r \in DOMAIN kept : r.template = t})))] :
          t \in {r.template : r \in DOMAIN kept} }

\* mutant of StatsGroups: GROUP BY created_at, template (the timestamp, not
\* its date)
StatsGroups_ByTimestamp(table, cd) ==
    LET kept == SelectBag(table, {r \in DOMAIN table : StatsWhere(r, cd)})
    IN  { [sent_date |-> TO_CHAR(DATE(g[1])), template |-> g[2],
           delivered_count |->
              Digits(BagCardinality(
                  SelectBag(kept, {r \in DOMAIN kept :
                                      r.created_at = g[1] /\ r.template = g[2]})))] :
          g \in {<<r.created_at, r.template>> : r \in DOMAIN kept} }

\* GROUP BY DATE(created_at), template, with the date as text and COUNT
StatsGroups(table, cd) ==
    LET kept == SelectBag(table, {r \in DOMAIN table : StatsWhere(r, cd)})
    IN  { [sent_date |-> TO_CHAR(g[1]), template |-> g[2],
           delivered_count |->
              Digits(BagCardinality(
                  SelectBag(kept, {r \in DOMAIN kept :
                                      DATE(r.created_at) = g[1] /\ r.template = g[2]})))] :
          g \in {<<DATE(r.created_at), r.template>> : r \in DOMAIN kept} }

\* mutant of ByCountDesc: ORDER BY delivered_count ASC
ByCountDesc_Ascending(rows) ==
    \A i \in 1 .. Len(rows) - 1 :
        parseInt(rows[i].delivered_count) <= parseInt(rows[i + 1].delivered_count)

\* ORDER BY delivered_count DESC: the counts compare as numbers
ByCountDesc(rows) ==
    \A i \in 1 .. Len(rows) - 1 :
        parseInt(rows[i].delivered_count) >= parseInt(rows[i + 1].delivered_count)

\* ORDER BY sent_date DESC: the output column sent_date compares as text
BySentDateDesc(rows) ==
    \A i \in 1 .. Len(rows) - 1 :
        ~TextLess(rows[i].sent_date, rows[i + 1].sent_date)

\* the row sequences the template-stats-today query can deliver; rows the
\* ORDER BY does not tell apart come in any order
TodaySelect(table, cd) ==
    {rows \in SeqsOfBag(SetToBag(TodayGroups(table, cd))) : ByCountDesc(rows)}

\* mutant of StatsSelect: the query has no ORDER BY
StatsSelect_Unordered(table, cd) ==
    SeqsOfBag(SetToBag(StatsGroups(table, cd)))

\* the row sequences the template-stats query can deliver
StatsSelect(table, cd) ==
    {rows \in SeqsOfBag(SetToBag(StatsGroups(table, cd))) : BySentDateDesc(rows)}

---------------------------------------------------------------------------
(* GET /api/notifications/template-stats-today and /template-stats *)

\* const mockData = [ ... ] of template-stats-today
MockToday ==
    << [template |-> "monthly_payment_reminder_v2", delivered_count |-> 45],
       [template |-> "late_fee_payment_reminder_v3", delivered_count |-> 32],
       [template |-> "longterm_payment_reminder_v2", delivered_count |-> 28] >>

\* const mockData = [ ... ] of template-stats; the four dates are the 5th
\* and the 4th of one month, written here by their day field
MockStats ==
    << [sent_date |-> <<0, 5>>, template |-> "late_fee_payment_reminder_v3",
        delivered_count |-> 45],
       [sent_date |-> <<0, 5>>, template |-> "monthly_payment_reminder_v2",
        delivered_count |-> 78],
       [sent_date |-> <<0, 4>>, template |-> "late_fee_payment_reminder_v4",
        delivered_count |-> 52],
       [sent_date |-> <<0, 4>>, template |-> "monthly_overdue_payment_reminder_v2",
        delivered_count |-> 34] >>

\* rows.map(row => ({ template, delivered_count: parseInt(row.delivered_count) }))
FormatToday(rows) ==
    [i \in 1 .. Len(rows) |->
        [template |-> rows[i].template,
         delivered_count |-> parseInt(rows[i].delivered_count)]]

\* rows.map(row => ({ sent_date, template, delivered_count: parseInt(...) }))
FormatStats(rows) ==
    [i \in 1 .. Len(rows) |->
        [sent_date |-> rows[i].sent_date,
         template |-> rows[i].template,
         delivered_count |-> parseInt(rows[i].delivered_count)]]

\* a template request arrives; without a pool it is answered with mockData
TemplateReceive(id, ep, mockData) ==
    /\ Free(id)
    /\ LET req == Awaiting(ep, NoQuery, NoQuery)
       IN  IF pool
           THEN reqs' = [reqs EXCEPT ![id] = req]
           ELSE reqs' = [reqs EXCEPT ![id] =
                           Answered(Settle(req, "none"), 200, mockData)]
    /\ UNCHANGED <<browser, pool, logs, today, app, fetches>>

\* part_000 lines 170-203
TodayReceive(id) == TemplateReceive(id, "template-stats-today", MockToday)

\* part_000 lines 225-261
StatsReceive(id) == TemplateReceive(id, "template-stats", MockStats)

\* part_000 lines 206-216: the query ran with CURRENT_DATE = today
TodayResolve(id) ==
    /\ reqs[id].pc = "await"
    /\ reqs[id].endpoint = "template-stats-today"
    /\ \E rows \in TodaySelect(logs, today) :
         reqs' = [reqs EXCEPT ![id] =
                    [Answered(Settle(@, "fulfilled"), 200, FormatToday(rows))
                        EXCEPT !.currentDate = today]]
    /\ UNCHANGED <<browser, pool, logs, today, app, fetches>>

\* part_000 lines 264-275: the query ran with CURRENT_DATE = today
StatsResolve(id) ==
    /\ reqs[id].pc = "await"
    /\ reqs[id].endpoint = "template-stats"
    /\ \E rows \in StatsSelect(logs, today) :
         reqs' = [reqs EXCEPT ![id] =
                    [Answered(Settle(@, "fulfilled"), 200, FormatStats(rows))
                        EXCEPT !.currentDate = today]]
    /\ UNCHANGED <<browser, pool, logs, today, app, fetches>>

\* part_000 lines 217-220 and 276-279: pool.query rejects
TemplateReject(id) ==
    /\ reqs[id].pc = "await"
    /\ reqs[id].endpoint \in {"template-stats-today", "template-stats"}
    /\ \E msg \in QueryErrors :
         reqs' = [reqs EXCEPT ![id] =
                    Answered(Settle(@, "rejected"), 500, ErrorBody(msg))]
    /\ UNCHANGED <<browser, pool, logs, today, app, fetches>>

---------------------------------------------------------------------------
(* The template endpoints over every small table *)

InitTemplates ==
    /\ pool \in BOOLEAN
    /\ logs \in (IF pool THEN BagsUpTo(TemplateRows, MaxTemplateRows) ELSE {EmptyBag})
    /\ today = FirstToday
    /\ reqs = [id \in ReqIds |-> IdleReq]
    /\ app = InitialApp(today)
    /\ fetches = <<>>
    /\ browser = UtcNoon

NextTemplates ==
    \/ TodayReceive(1)
    \/ TodayResolve(1)
    \/ StatsReceive(1)
    \/ StatsResolve(1)
    \/ TemplateReject(1)
    \/ Close(1)
    \/ Midnight

SpecTemplates == InitTemplates /\ [][NextTemplates]_vars

---------------------------------------------------------------------------
(* The whole server *)

Init ==
    /\ pool \in BOOLEAN
    /\ logs \in (IF pool THEN BagsUpTo(ServerRows, MaxServerRows) ELSE {EmptyBag})
    /\ today = FirstToday
    /\ reqs = [id \in ReqIds |-> IdleReq]
    /\ app = InitialApp(today)
    /\ fetches = <<>>
    /\ browser = UtcNoon

Next ==
    \/ SummaryReceive(1)
    \/ SummaryResolve(1)
    \/ SummaryReject(1)
    \/ TodayReceive(1)
    \/ TodayResolve(1)
    \/ StatsReceive(1)
    \/ StatsResolve(1)
    \/ TemplateReject(1)
    \/ Close(1)
    \/ Midnight

Spec == Init /\ [][Next]_vars

---------------------------------------------------------------------------
(* Two requests at a time: Node runs one handler until its await, so the   *)
(* steps of two requests interleave at the await of pool.query              *)

\* a server with a pool: both requests reach the query
InitPair ==
    /\ pool = TRUE
    /\ logs \in BagsUpTo(ServerRows, MaxServerRows)
    /\ today = FirstToday
    /\ reqs = [id \in ReqIds |-> IdleReq]
    /\ app = InitialApp(today)
    /\ fetches = <<>>
    /\ browser = UtcNoon

NextPair ==
    \/ \E id \in ReqIds : SummaryReceive(id)
    \/ \E id \in ReqIds : SummaryResolve(id)
    \/ \E id \in ReqIds : SummaryReject(id)
    \/ \E id \in ReqIds : TodayReceive(id)
    \/ \E id \in ReqIds : TodayResolve(id)
    \/ \E id \in ReqIds : StatsReceive(id)
    \/ \E id \in ReqIds : StatsResolve(id)
    \/ \E id \in ReqIds : TemplateReject(id)
    \/ \E id \in ReqIds : Close(id)
    \/ Midnight

SpecPair == InitPair /\ [][NextPair]_vars

---------------------------------------------------------------------------
(* Range Summary: properties *)

\* request id has been answered 200 by the summary endpoint
SummaryOk(id) ==
    /\ reqs[id].endpoint = "summary"
    /\ reqs[id].pc = "done"
    /\ reqs[id].status = 200

\* ... from rows the query delivered, not from mockCounts
SummaryLive(id) == SummaryOk(id) /\ pool

\* number of stored rows of event type e and a channel in chans whose
\* timestamp lies between the first tick of day lo and the last tick of day hi
Matching(e, chans, lo, hi) ==
    LET Is(r) == /\ r.event_type = e
                 /\ r.notification_type \in chans
                 /\ FirstTick(lo) <= r.created_at
                 /\ r.created_at <= LastTick(hi)
    IN  BagCardinality(SelectBag(logs, {r \in DOMAIN logs : Is(r)}))

\* the breakdown list of the i-th declared event type
BreakdownOf(body, i) ==
    IF i = 1 THEN body.breakdown.paymentReminder ELSE body.breakdown.sessionReminder

\* C1 (as claimed): in every Range Summary result, for each of the two
\* declared event types, the summary count equals the breakdown's push
\* count plus its whatsapp count.
C1_TotalIsPushPlusWhatsapp ==
    \A id \in ReqIds :
        SummaryOk(id) =>
            \A i \in 1 .. 2 :
                reqs[id].body.summary[i].count =
                    BreakdownOf(reqs[id].body, i)[1].count
                  + BreakdownOf(reqs[id].body, i)[2].count

\* C2: the count of each event type in a Range Summary computed from the
\* row store equals the number of stored rows of that event type whose
\* channel is push or whatsapp and whose day lies in [start, end], both ends
\* included; each breakdown count is the number of those rows of its channel.
C2_CountsAreMatchingRows ==
    \A id \in ReqIds :
        SummaryLive(id) =>
            LET body == reqs[id].body
                lo   == reqs[id].locals.start
                hi   == reqs[id].locals.end
            IN  \A i \in 1 .. 2 :
                  /\ body.summary[i].count =
                        Matching(DeclaredEventTypes[i], {"push", "whatsapp"}, lo, hi)
                  /\ \A j \in 1 .. 2 :
                        BreakdownOf(body, i)[j].count =
                            Matching(DeclaredEventTypes[i], {DeclaredChannels[j]}, lo, hi)

\* C2 witness: a result over a range of two days that counts two rows of one
\* event type, a push row and a whatsapp row, dated on the two ends of the range.
C2_Witness ==
    \E id \in ReqIds :
        /\ SummaryLive(id)
        /\ reqs[id].locals.start < reqs[id].locals.end
        /\ reqs[id].body.summary[1].count = 2
        /\ reqs[id].body.breakdown.paymentReminder[1].count = 1
        /\ reqs[id].body.breakdown.paymentReminder[2].count = 1
        /\ \E r \in DOMAIN logs : DATE(r.created_at) = reqs[id].locals.start
        /\ \E r \in DOMAIN logs : DATE(r.created_at) = reqs[id].locals.end

\* C3 (as claimed): when the caller omits startDate, endDate or both, the
\* resolved range is start = end = today.
C3_EitherOmittedMeansToday ==
    \A id \in ReqIds :
        ( /\ reqs[id].endpoint = "summary"
          /\ {"startDate", "endDate"} \ DOMAIN reqs[id].query # {} )
        => /\ reqs[id].locals.start = reqs[id].locals.today
           /\ reqs[id].locals.end = reqs[id].locals.today

\* C3 (amended): each bound is resolved on its own: an omitted bound becomes
\* today, a supplied bound is kept even when the other one is omitted; the
\* range is start = end = today when both are omitted, and a 200 response
\* echoes the resolved range.
C3_EachOmittedBoundIsToday ==
    \A id \in ReqIds :
        reqs[id].endpoint = "summary" =>
            LET q == reqs[id].query
                l == reqs[id].locals
            IN  /\ l.start = (IF "startDate" \in DOMAIN q THEN q.startDate ELSE l.today)
                /\ l.end = (IF "endDate" \in DOMAIN q THEN q.endDate ELSE l.today)
                /\ l.today \in FirstToday .. today
                /\ SummaryOk(id) => reqs[id].body.dateRange = [start |-> l.start, end |-> l.end]

\* C3 witness: a request that omitted only startDate was answered for the
\* range [today, endDate] with endDate another day than today.
C3_Witness ==
    \E id \in ReqIds :
        /\ SummaryLive(id)
        /\ DOMAIN reqs[id].query = {"endDate"}
        /\ reqs[id].body.dateRange.start = reqs[id].locals.today
        /\ reqs[id].body.dateRange.end # reqs[id].locals.today

\* C4: every Range Summary result holds exactly two summary entries,
\* payment-reminder-job then session-reminder, and exactly two breakdown
\* lists, each push then whatsapp; when the result is computed from the row
\* store, an entry no stored row matches is present with count 0.
C4_FixedShapeZeroFilled ==
    \A id \in ReqIds :
        SummaryOk(id) =>
            LET body == reqs[id].body IN
            /\ Len(body.summary) = 2
            /\ DOMAIN body.breakdown = {"paymentReminder", "sessionReminder"}
            /\ \A i \in 1 .. 2 :
                 /\ body.summary[i].trigger = DeclaredEventTypes[i]
                 /\ body.summary[i].count \in Nat
                 /\ Len(BreakdownOf(body, i)) = 2
                 /\ \A j \in 1 .. 2 :
                      /\ BreakdownOf(body, i)[j].trigger = DeclaredChannels[j]
                      /\ BreakdownOf(body, i)[j].count \in Nat
                      /\ ( /\ pool
                           /\ Matching(DeclaredEventTypes[i], {DeclaredChannels[j]},
                                       reqs[id].locals.start, reqs[id].locals.end) = 0 )
                         => BreakdownOf(body, i)[j].count = 0
                 /\ ( /\ pool
                      /\ Matching(DeclaredEventTypes[i], {"push", "whatsapp"},
                                  reqs[id].locals.start, reqs[id].locals.end) = 0 )
                    => body.summary[i].count = 0

\* C4 witness: a result computed from the empty table.
C4_Witness ==
    \E id \in ReqIds :
        /\ SummaryLive(id)
        /\ logs = EmptyBag
        /\ reqs[id].body.summary[1].count = 0
        /\ reqs[id].body.summary[2].count = 0

\* every count of a Range Summary body is 0
ZeroFilled(body) ==
    \A i \in 1 .. 2 :
        /\ body.summary[i].count = 0
        /\ \A j \in 1 .. 2 : BreakdownOf(body, i)[j].count = 0

\* request id reached the row store with start later than end
Reversed(id) ==
    /\ reqs[id].endpoint = "summary"
    /\ pool
    /\ reqs[id].locals.start > reqs[id].locals.end

\* C5: a reversed range (start > end) selects no stored row, and the request
\* is answered 200 with every count 0; the handler has no error of its own
\* for it (a 500 is the row source's failure, for any range).
C5_ReversedRangeIsZeroFilled ==
    \A id \in ReqIds :
        Reversed(id) =>
            /\ SummarySelect(logs, reqs[id].locals.start, reqs[id].locals.end) = EmptyBag
            /\ reqs[id].pc = "done" =>
                 \/ reqs[id].status = 200 /\ ZeroFilled(reqs[id].body)
                 \/ reqs[id].status = 500 /\ reqs[id].body.message \in QueryErrors

\* C5 witness: a reversed range answered 200 while the table holds a counted
\* kind of row dated on a day from end to start.
C5_Witness ==
    \E id \in ReqIds :
        /\ Reversed(id)
        /\ SummaryOk(id)
        /\ \E r \in DOMAIN logs :
             /\ r.event_type = "session-reminder"
             /\ r.notification_type = "push"
             /\ reqs[id].locals.end <= DATE(r.created_at)
             /\ DATE(r.created_at) <= reqs[id].locals.start

---------------------------------------------------------------------------
(* Daily Template and Today Template: properties *)

\* request id has been answered 200 by template-stats, from the row store
StatsLive(id) ==
    /\ reqs[id].endpoint = "template-stats"
    /\ reqs[id].pc = "done"
    /\ reqs[id].status = 200
    /\ pool

\* request id has been answered 200 by template-stats-today
TodayOk(id) ==
    /\ reqs[id].endpoint = "template-stats-today"
    /\ reqs[id].pc = "done"
    /\ reqs[id].status = 200

TodayLive(id) == TodayOk(id) /\ pool

\* the calendar day a sent_date text denotes
DayOf(text) == parseInt(text)

\* stored row r is a successful delivery of an allowed template stamped from
\* the first tick of day lo to the last tick of day hi
Delivered(r, lo, hi) ==
    /\ r.status = "success"
    /\ r.template \in AllowedTemplates
    /\ FirstTick(lo) <= r.created_at
    /\ r.created_at <= LastTick(hi)

\* number of stored rows of template t that Delivered admits
NumDelivered(t, lo, hi) ==
    LET Is(r) == r.template = t /\ Delivered(r, lo, hi)
    IN  BagCardinality(SelectBag(logs, {r \in DOMAIN logs : Is(r)}))

RECURSIVE SumCounts(_)
SumCounts(list) ==
    IF list = <<>> THEN 0 ELSE Head(list).delivered_count + SumCounts(Tail(list))

\* C6: a Daily Template result computed from the row store has no entry dated
\* today or later and none dated before today - 7 days, and every stored row
\* with status success, an allowed template and a day in [today - 7, today)
\* has its (date, template) entry in the result.
C6_WindowExcludesToday ==
    \A id \in ReqIds :
        StatsLive(id) =>
            LET body == reqs[id].body
                cd   == reqs[id].currentDate
            IN  /\ \A i \in DOMAIN body :
                     /\ DayOf(body[i].sent_date) < cd
                     /\ DayOf(body[i].sent_date) >= cd - 7
                /\ \A r \in DOMAIN logs :
                     Delivered(r, cd - 7, cd - 1) =>
                        \E i \in DOMAIN body :
                            /\ DayOf(body[i].sent_date) = DATE(r.created_at)
                            /\ body[i].template = r.template

\* C6 witness: of three successful deliveries of allowed templates, stamped
\* on the last tick before the window, the first tick of the window and the
\* first tick of today, the result lists only the one inside the window.
C6_Witness ==
    \E id \in ReqIds :
        /\ StatsLive(id)
        /\ Len(reqs[id].body) = 1
        /\ DayOf(reqs[id].body[1].sent_date) = reqs[id].currentDate - 7
        /\ \E a, b, c \in DOMAIN logs :
             /\ \A r \in {a, b, c} : r.status = "success" /\ r.template \in AllowedTemplates
             /\ a.created_at = LastTick(reqs[id].currentDate - 8)
             /\ b.created_at = FirstTick(reqs[id].currentDate - 7)
             /\ c.created_at = FirstTick(reqs[id].currentDate)

\* C7: in a Daily Template result computed from the row store each
\* (date, template) pair appears at most once, its deliveredCount is the
\* number of eligible rows (status success, allowed template, day in the
\* window) of that day and template and is never 0, and the counts add up to
\* the number of eligible rows.
C7_OneBucketPerDateAndTemplate ==
    \A id \in ReqIds :
        StatsLive(id) =>
            LET body == reqs[id].body
                cd   == reqs[id].currentDate
                All(r) == Delivered(r, cd - 7, cd - 1)
            IN  /\ \A i, j \in DOMAIN body :
                     ( /\ body[i].sent_date = body[j].sent_date
                       /\ body[i].template = body[j].template ) => i = j
                /\ \A i \in DOMAIN body :
                     /\ body[i].delivered_count > 0
                     /\ DayOf(body[i].sent_date) \in (cd - 7) .. (cd - 1)
                     /\ body[i].delivered_count =
                            NumDelivered(body[i].template,
                                         DayOf(body[i].sent_date), DayOf(body[i].sent_date))
                /\ SumCounts(body) = BagCardinality(SelectBag(logs, {r \in DOMAIN logs : All(r)}))

\* C7 witness: two rows of one template stamped at different ticks of one day
\* share an entry of count 2, next to an entry of another template.
C7_Witness ==
    \E id \in ReqIds :
        /\ StatsLive(id)
        /\ Len(reqs[id].body) = 2
        /\ \E i \in 1 .. 2 : reqs[id].body[i].delivered_count = 2
        /\ reqs[id].body[1].sent_date = reqs[id].body[2].sent_date
        /\ Cardinality(DOMAIN logs) = 3

\* C8: a Today Template result computed from the row store has one entry for
\* each allowed template that has rows dated today with status success, its
\* delivered_count is the number of those rows, and it has no other entry:
\* rows of another day, another status or another template add to no entry.
C8_TodaySuccessAllowedOnly ==
    \A id \in ReqIds :
        TodayLive(id) =>
            LET body == reqs[id].body
                cd   == reqs[id].currentDate
            IN  /\ \A i, j \in DOMAIN body : body[i].template = body[j].template => i = j
                /\ \A i \in DOMAIN body :
                     /\ body[i].delivered_count > 0
                     /\ body[i].delivered_count = NumDelivered(body[i].template, cd, cd)
                /\ \A r \in DOMAIN logs :
                     Delivered(r, cd, cd) =>
                        \E i \in DOMAIN body : body[i].template = r.template

\* C8 witness: the table holds a successful row of an allowed template dated
\* today, a failed row dated today and a successful row of the day before;
\* the result is the one entry of count 1.
C8_Witness ==
    \E id \in ReqIds :
        /\ TodayLive(id)
        /\ Len(reqs[id].body) = 1
        /\ reqs[id].body[1].delivered_count = 1
        /\ \E a, b \in DOMAIN logs :
             /\ a.status = "failed"
             /\ DATE(a.created_at) = reqs[id].currentDate
             /\ a.template \in AllowedTemplates
             /\ b.status = "success"
             /\ DATE(b.created_at) = reqs[id].currentDate - 1
             /\ b.template \in AllowedTemplates

\* C9: every 200 response of template-stats-today, from the row store or
\* from mockData, lists its entries by delivered_count descending.
C9_TodayByCountDescending ==
    \A id \in ReqIds :
        TodayOk(id) =>
            \A i \in 1 .. Len(reqs[id].body) - 1 :
                reqs[id].body[i].delivered_count >= reqs[id].body[i + 1].delivered_count

\* C9 witness: two deliveries of late_fee_payment_reminder_v3 are listed
\* before one of monthly_payment_reminder_v2.
C9_Witness ==
    \E id \in ReqIds :
        /\ TodayLive(id)
        /\ Len(reqs[id].body) = 2
        /\ reqs[id].body[1] =
              [template |-> "late_fee_payment_reminder_v3", delivered_count |-> 2]
        /\ reqs[id].body[2] =
              [template |-> "monthly_payment_reminder_v2", delivered_count |-> 1]

\* C10: every 200 response of template-stats lists its entries by date
\* descending: the formatting step keeps the order the row source delivered.
C10_StatsByDateDescending ==
    \A id \in ReqIds :
        ( /\ reqs[id].endpoint = "template-stats"
          /\ reqs[id].pc = "done"
          /\ reqs[id].status = 200 ) =>
            \A i \in 1 .. Len(reqs[id].body) - 1 :
                DayOf(reqs[id].body[i].sent_date) >= DayOf(reqs[id].body[i + 1].sent_date)

\* C10 witness: a result from the row store with entries of two days whose
\* texts differ in the leading digit, the later day first.
C10_Witness ==
    \E id \in ReqIds :
        /\ StatsLive(id)
        /\ Len(reqs[id].body) = 2
        /\ DayOf(reqs[id].body[1].sent_date) > DayOf(reqs[id].body[2].sent_date)
        /\ Head(reqs[id].body[1].sent_date) # Head(reqs[id].body[2].sent_date)

---------------------------------------------------------------------------
(* The counting loop of the summary endpoint: paths *)

\* the path of the loop body on which counts[row.event_type].total is
\* incremented and neither the push nor the whatsapp branch is taken
TotalOnlyPath(counts, row) ==
    /\ row.event_type \in DOMAIN counts
    /\ ~(row.notification_type = "push")
    /\ ~(row.notification_type = "whatsapp")

---------------------------------------------------------------------------
(* Responses of the three endpoints *)

\* the body of a 500: { error: 'Internal Server Error', message }
IsErrorBody(body) ==
    \E msg \in QueryErrors :
        body = [error |-> "Internal Server Error", message |-> msg]

\* C11: on each of the three endpoints a request is answered at most once;
\* a request whose query rejected has been answered once, with status 500
\* and a body of exactly error and message; a request whose query fulfilled
\* has been answered once, with status 200; a request is without an answer
\* only while its query is pending.
C11_OneResponsePerOutcome ==
    \A id \in ReqIds :
        LET req == reqs[id]
        IN  /\ req.sent <= 1
            /\ req.pc = "done" => req.sent = 1
            /\ req.pc = "await" => req.settled = "pending" /\ req.sent = 0
            /\ req.settled = "rejected" =>
                  req.sent = 1 /\ req.status = 500 /\ IsErrorBody(req.body)
            /\ req.settled = "fulfilled" =>
                  req.sent = 1 /\ req.status = 200

\* C11 witness: a Range Summary request whose query rejected stands answered
\* with the 500.
C11_Witness ==
    \E id \in ReqIds :
        /\ reqs[id].endpoint = "summary"
        /\ reqs[id].settled = "rejected"
        /\ reqs[id].sent = 1
        /\ reqs[id].status = 500

\* every count in the 200 body of request id is the number of stored rows
\* it stands for: rows of the event type (and channel) in the request's
\* range for the summary, successful rows of the entry's template on the
\* entry's day for the two template results
BackedByRows(id) ==
    LET req  == reqs[id]
        body == req.body
    IN  CASE req.endpoint = "summary" ->
               \A i \in 1 .. 2 :
                 /\ body.summary[i].count =
                       Matching(DeclaredEventTypes[i], {"push", "whatsapp"},
                                req.locals.start, req.locals.end)
                 /\ \A j \in 1 .. 2 :
                       BreakdownOf(body, i)[j].count =
                         Matching(DeclaredEventTypes[i], {DeclaredChannels[j]},
                                  req.locals.start, req.locals.end)
          [] req.endpoint = "template-stats-today" ->
               \A i \in DOMAIN body :
                 body[i].delivered_count =
                   NumDelivered(body[i].template, req.currentDate, req.currentDate)
          [] req.endpoint = "template-stats" ->
               \A i \in DOMAIN body :
                 body[i].delivered_count =
                   NumDelivered(body[i].template, DayOf(body[i].sent_date),
                                DayOf(body[i].sent_date))
          [] OTHER -> FALSE

---------------------------------------------------------------------------
(* Two requests at a time: properties *)

\* the responses a Range Summary request with this query object gets when it
\* is the only request the server handles, received on calendar day `day`
AloneResponses(query, day) ==
    LET locals == SummaryLocals(query, day)
    IN  { ResponseData(locals, CountRows(ZeroCounts, rows)) :
            rows \in SeqsOfBag(SummarySelect(logs, locals.start, locals.end)) }

\* C14: however the steps of two Range Summary requests interleave at their
\* awaits, the 200 response of each is a response the same request gets when
\* it runs alone on the same table.
C14_EachAsIfAlone ==
    \A id \in ReqIds :
        ( /\ reqs[id].endpoint = "summary"
          /\ reqs[id].pc = "done"
          /\ reqs[id].status = 200 ) =>
            reqs[id].body \in AloneResponses(reqs[id].query, reqs[id].locals.today)

\* C14 witness: two Range Summary requests for different ranges stand
\* answered side by side, with different counts.
C14_Witness ==
    /\ \A id \in ReqIds :
          /\ reqs[id].endpoint = "summary"
          /\ reqs[id].pc = "done"
          /\ reqs[id].status = 200
    /\ reqs[1].body.dateRange # reqs[2].body.dateRange
    /\ reqs[1].body.summary[1].count = 1
    /\ reqs[1].body.summary[2].count = 0
    /\ reqs[2].body.summary[1].count = 0
    /\ reqs[2].body.summary[2].count = 1

\* both slots hold a 200 computed from queried rows by the same endpoint for
\* the same input: the same range for the summary, the same CURRENT_DATE for
\* the template endpoints; the table is the same, rows are never written
SameInvocationTwice ==
    /\ \A id \in ReqIds :
          /\ reqs[id].pc = "done"
          /\ reqs[id].status = 200
          /\ reqs[id].settled = "fulfilled"
    /\ reqs[1].endpoint = reqs[2].endpoint
    /\ IF reqs[1].endpoint = "summary"
       THEN /\ reqs[1].locals.start = reqs[2].locals.start
            /\ reqs[1].locals.end = reqs[2].locals.end
       ELSE reqs[1].currentDate = reqs[2].currentDate

\* the entries of a template result, without their order
EntriesOf(body) == {body[i] : i \in DOMAIN body}

\* C15 (as claimed): the same aggregation invoked twice on an unchanged
\* table and an unchanged current date yields identical output both times.
C15_SameOutputTwice ==
    SameInvocationTwice => reqs[1].body = reqs[2].body

\* C15 (amended): with a pool configured, the same Range Summary invoked
\* twice yields identical output; the same template aggregation invoked
\* twice yields the same entries with the same counts, and the same sequence
\* of counts (Today Template) or of dates (Daily Template): the two outputs
\* differ at most in the order of entries the ORDER BY does not tell apart.
C15_SameUpToTies ==
    SameInvocationTwice =>
        LET a == reqs[1].body
            b == reqs[2].body
        IN  CASE reqs[1].endpoint = "summary" -> a = b
              [] reqs[1].endpoint = "template-stats-today" ->
                   /\ Len(a) = Len(b)
                   /\ EntriesOf(a) = EntriesOf(b)
                   /\ \A i \in DOMAIN a : a[i].delivered_count = b[i].delivered_count
              [] reqs[1].endpoint = "template-stats" ->
                   /\ Len(a) = Len(b)
                   /\ EntriesOf(a) = EntriesOf(b)
                   /\ \A i \in DOMAIN a : a[i].sent_date = b[i].sent_date
              [] OTHER -> FALSE

\* C15 witness: two Today Template results of the same day over the same
\* table list the same two entries in opposite orders.
C15_Witness ==
    /\ SameInvocationTwice
    /\ reqs[1].endpoint = "template-stats-today"
    /\ Len(reqs[1].body) = 2
    /\ reqs[1].body[1] = reqs[2].body[2]
    /\ reqs[1].body[2] = reqs[2].body[1]
    /\ reqs[1].body[1] # reqs[1].body[2]

---------------------------------------------------------------------------
(* The dashboard (src/App.tsx): React state, the three fetch functions and *)
(* the click handlers. A fetch function runs to its await in one step and  *)
(* from the settled fetch through its finally block in another.            *)

\* handleQuickSelect(0), (1), (7), (30) of the four buttons
QuickSelectDays == {0, 1, 7, 30}

\* err.message: fetch() rejected, or the Error thrown for !response.ok
FetchErrors == {"Failed to fetch", "Failed to fetch data: 500 Internal Server Error"}

\* one call of fetch(): the endpoint, the startDate and endDate parameters
\* (0 where the URL has none) and how the call ended
Call(kind, start, end) ==
    [kind |-> kind, start |-> start, end |-> end, outcome |-> "pending"]

\* const mockData = { dateRange: { start, end }, summary, breakdown }
MockData(start, end) ==
    [dateRange |-> [start |-> start, end |-> end],
     summary   |-> << [trigger |-> "payment-reminder-job", count |-> 1250],
                      [trigger |-> "session-reminder", count |-> 2800] >>,
     breakdown |->
        [paymentReminder |-> << [trigger |-> "push", count |-> 800],
                                [trigger |-> "whatsapp", count |-> 450] >>,
         sessionReminder |-> << [trigger |-> "push", count |-> 2100],
                                [trigger |-> "whatsapp", count |-> 700] >>]]

\* the 200 bodies the summary endpoint sends for ?startDate=start&endDate=end
SummaryBodies(start, end) ==
    LET query  == [k \in {"startDate", "endDate"} |->
                      IF k = "startDate" THEN start ELSE end]
        locals == SummaryLocals(query, today)
    IN  IF pool THEN AloneResponses(query, today)
        ELSE {ResponseData(locals, mockCounts) : mockCounts \in MockCounts}

\* the 200 bodies of template-stats
StatsBodies ==
    IF pool THEN {FormatStats(rows) : rows \in StatsSelect(logs, today)}
    ELSE {MockStats}

\* the 200 bodies of template-stats-today
TodayBodies ==
    IF pool THEN {FormatToday(rows) : rows \in TodaySelect(logs, today)}
    ELSE {MockToday}

\* the effect has run: the dashboard has made its first calls
Mounted == fetches # <<>>

\* clicks on Apply Filter and the quick-select buttons so far: every call
\* after the three of the effect
Clicks == Len(fetches) - 3

\* calls of the given endpoint that have not settled
InFlight(kind) ==
    {i \in DOMAIN fetches : fetches[i].kind = kind /\ fetches[i].outcome = "pending"}

\* fetchData(start, end) up to its await, from React state `state`:
\* setIsLoading(true); setError(null); fetch(...)
fetchData(state, start, end) ==
    /\ app' = [state EXCEPT !.isLoading = TRUE, !.error = <<>>]
    /\ fetches' = Append(fetches, Call("summary", start, end))

\* useEffect(() => { fetchData(startDate, endDate); fetchTemplateData();
\* fetchTodayTemplateData(); }, [])
Mount ==
    /\ ~Mounted
    /\ app' = [app EXCEPT !.isLoading = TRUE, !.error = <<>>,
                          !.isLoadingTemplate = TRUE, !.isLoadingToday = TRUE]
    /\ fetches' = << Call("summary", app.startDate, app.endDate),
                     Call("template-stats", 0, 0),
                     Call("template-stats-today", 0, 0) >>
    /\ UNCHANGED <<browser, pool, logs, today, reqs>>

\* onChange of the start-date input
ChangeStartDate ==
    /\ Mounted
    /\ \E d \in ParamDays \ {app.startDate} : app' = [app EXCEPT !.startDate = d]
    /\ UNCHANGED <<browser, pool, logs, today, reqs, fetches>>

\* onChange of the end-date input
ChangeEndDate ==
    /\ Mounted
    /\ \E d \in ParamDays \ {app.endDate} : app' = [app EXCEPT !.endDate = d]
    /\ UNCHANGED <<browser, pool, logs, today, reqs, fetches>>

\* the Apply Filter button, disabled={isLoading}
handleFilterApply ==
    /\ Mounted
    /\ Clicks < MaxClicks
    /\ ~app.isLoading
    /\ fetchData(app, app.startDate, app.endDate)
    /\ UNCHANGED <<browser, pool, logs, today, reqs>>

\* a quick-select button; it is never disabled
handleQuickSelect(days) ==
    /\ Mounted
    /\ Clicks < MaxClicks
    /\ LET end      == Now
           start    == setDate(browser.zone, Now, getDate(browser.zone, end) - days)
           startStr == ISODate(start)
           endStr   == ISODate(end)
       IN  fetchData([app EXCEPT !.startDate = startStr, !.endDate = endStr],
                     startStr, endStr)
    /\ UNCHANGED <<browser, pool, logs, today, reqs>>

\* call i is a call of the endpoint that has not settled
Pending(i, kind) ==
    /\ i \in DOMAIN fetches
    /\ fetches[i].kind = kind
    /\ fetches[i].outcome = "pending"

\* fetchData after its await, response ok: setApiResponse(data); finally
\* setIsLoading(false)
fetchDataThen(i) ==
    /\ Pending(i, "summary")
    /\ \E data \in SummaryBodies(fetches[i].start, fetches[i].end) :
         app' = [app EXCEPT !.apiResponse = <<data>>, !.isLoading = FALSE]
    /\ fetches' = [fetches EXCEPT ![i].outcome = "ok"]
    /\ UNCHANGED <<browser, pool, logs, today, reqs>>

\* fetchData after its await, fetch rejected or response not ok:
\* setError(err.message); setApiResponse(mockData); finally setIsLoading(false)
fetchDataCatch(i) ==
    /\ Pending(i, "summary")
    /\ \E msg \in FetchErrors :
         app' = [app EXCEPT !.error = <<msg>>,
                            !.apiResponse = <<MockData(fetches[i].start, fetches[i].end)>>,
                            !.isLoading = FALSE]
    /\ fetches' = [fetches EXCEPT ![i].outcome = "failed"]
    /\ UNCHANGED <<browser, pool, logs, today, reqs>>

\* fetchTemplateData after its await, response ok
fetchTemplateDataThen(i) ==
    /\ Pending(i, "template-stats")
    /\ \E data \in StatsBodies :
         app' = [app EXCEPT !.templateData = data, !.isLoadingTemplate = FALSE]
    /\ fetches' = [fetches EXCEPT ![i].outcome = "ok"]
    /\ UNCHANGED <<browser, pool, logs, today, reqs>>

\* mutant of fetchTemplateDataCatch: setIsLoadingTemplate(false) sits at the
\* end of the try block instead of a finally block
fetchTemplateDataCatch_NoFinally(i) ==
    /\ Pending(i, "template-stats")
    /\ app' = [app EXCEPT !.templateData = <<>>]
    /\ fetches' = [fetches EXCEPT ![i].outcome = "failed"]
    /\ UNCHANGED <<browser, pool, logs, today, reqs>>

\* fetchTemplateData's catch: setTemplateData([])
fetchTemplateDataCatch(i) ==
    /\ Pending(i, "template-stats")
    /\ app' = [app EXCEPT !.templateData = <<>>, !.isLoadingTemplate = FALSE]
    /\ fetches' = [fetches EXCEPT ![i].outcome = "failed"]
    /\ UNCHANGED <<browser, pool, logs, today, reqs>>

\* fetchTodayTemplateData after its await, response ok
fetchTodayTemplateDataThen(i) ==
    /\ Pending(i, "template-stats-today")
    /\ \E data \in TodayBodies :
         app' = [app EXCEPT !.todayTemplateData = data, !.isLoadingToday = FALSE]
    /\ fetches' = [fetches EXCEPT ![i].outcome = "ok"]
    /\ UNCHANGED <<browser, pool, logs, today, reqs>>

\* fetchTodayTemplateData's catch: setTodayTemplateData([])
fetchTodayTemplateDataCatch(i) ==
    /\ Pending(i, "template-stats-today")
    /\ app' = [app EXCEPT !.todayTemplateData = <<>>, !.isLoadingToday = FALSE]
    /\ fetches' = [fetches EXCEPT ![i].outcome = "failed"]
    /\ UNCHANGED <<browser, pool, logs, today, reqs>>

\* the calls a dashboard session can make
CallIds == 1 .. (3 + MaxClicks)

\* the tables behind the dashboard: an empty one, one with a row of today
\* and one with a row of the day before, each row kept by every query
\* whose range or window holds its day
AppTables ==
    { EmptyBag } \cup
    { SetToBag({r}) :
        r \in {x \in ServerRows : x.status = "success" /\ x.notification_type = "push"
                                     /\ x.event_type = "payment-reminder-job"} }

\* a server with a pool; the page loads
InitApp ==
    /\ pool = TRUE
    /\ logs \in AppTables
    /\ today = FirstToday
    /\ reqs = [id \in ReqIds |-> IdleReq]
    /\ app = InitialApp(today)
    /\ fetches = <<>>
    /\ browser = UtcNoon

\* a settled fetch resumes its function
Settles ==
    \/ \E i \in CallIds : fetchDataThen(i)
    \/ \E i \in CallIds : fetchDataCatch(i)
    \/ \E i \in CallIds : fetchTemplateDataThen(i)
    \/ \E i \in CallIds : fetchTemplateDataCatch(i)
    \/ \E i \in CallIds : fetchTodayTemplateDataThen(i)
    \/ \E i \in CallIds : fetchTodayTemplateDataCatch(i)

NextApp ==
    \/ Mount
    \/ ChangeStartDate
    \/ ChangeEndDate
    \/ handleFilterApply
    \/ \E days \in QuickSelectDays : handleQuickSelect(days)
    \/ Settles

SpecApp == InitApp /\ [][NextApp]_vars

\* every fetch() settles: the browser resolves or rejects the promise, and
\* the event loop then runs the continuation of the fetch function
NextAppLive ==
    \/ Mount
    \/ handleFilterApply
    \/ \E days \in QuickSelectDays : handleQuickSelect(days)
    \/ Settles

SpecAppLive == InitApp /\ [][NextAppLive]_vars /\ WF_vars(Settles)

---------------------------------------------------------------------------
(* The dashboard: properties *)

Kinds == {"summary", "template-stats", "template-stats-today"}

\* what the card of an endpoint renders from React state
View(kind, state) ==
    CASE kind = "summary" ->
           IF state.isLoading THEN "loading"
           ELSE IF state.error # <<>> THEN "error-and-fallback"
           ELSE IF state.apiResponse # <<>> /\ Len(Head(state.apiResponse).summary) > 0
                THEN "chart"
           ELSE "no-data"
      [] kind = "template-stats" ->
           IF state.isLoadingTemplate THEN "loading"
           ELSE IF Len(state.templateData) > 0 THEN "chart"
           ELSE "no-data"
      [] kind = "template-stats-today" ->
           IF state.isLoadingToday THEN "loading"
           ELSE IF Len(state.todayTemplateData) > 0 THEN "chart"
           ELSE "no-data"

\* the dashboard has called the endpoint and every call of it has failed
AllFailed(kind) ==
    /\ \E i \in DOMAIN fetches : fetches[i].kind = kind
    /\ \A i \in DOMAIN fetches :
          fetches[i].kind = kind => fetches[i].outcome = "failed"

\* C13 (as claimed): when the fetches of one of the three results have all
\* failed, the card of that result shows the error with a marked fallback;
\* it never shows what a successful fetch of no data shows.
C13_FailureIsSurfaced ==
    \A kind \in Kinds :
        AllFailed(kind) => View(kind, app) = "error-and-fallback"

\* the most recent call of the endpoint
LastCall(kind) ==
    LET of == {i \in DOMAIN fetches : fetches[i].kind = kind}
    IN  fetches[CHOOSE i \in of : \A j \in of : j <= i]

\* the displayed apiResponse is the mockData of fetchData's catch
ShowsMockData ==
    /\ app.apiResponse # <<>>
    /\ Head(app.apiResponse) =
          MockData(Head(app.apiResponse).dateRange.start,
                   Head(app.apiResponse).dateRange.end)

\* C17 (as claimed): once the dashboard has fetched summaries and none is in
\* flight, the displayed apiResponse carries the range of the most recently
\* started summary fetch.
C17_LatestFetchIsDisplayed ==
    (Mounted /\ InFlight("summary") = {}) =>
        /\ app.apiResponse # <<>>
        /\ Head(app.apiResponse).dateRange =
              [start |-> LastCall("summary").start, end |-> LastCall("summary").end]

\* C18 (as claimed): isLoading is true in every state in which a summary
\* fetch is in flight, so neither the chart nor the enabled Apply Filter
\* button is rendered then.
C18_LoadingWhileInFlight ==
    InFlight("summary") # {} => app.isLoading

\* C19 (as claimed): in every state with isLoading false, error is non-null
\* exactly when the displayed apiResponse is the mockData fallback.
C19_ErrorIffMockShown ==
    ~app.isLoading => (app.error # <<>> <=> ShowsMockData)

\* the loading flag of an endpoint's fetch function
Flag(kind, state) ==
    CASE kind = "summary" -> state.isLoading
      [] kind = "template-stats" -> state.isLoadingTemplate
      [] kind = "template-stats-today" -> state.isLoadingToday

\* the flag and the data of an endpoint in React state
Slice(kind, state) ==
    CASE kind = "summary" -> <<state.isLoading, state.apiResponse, state.error>>
      [] kind = "template-stats" -> <<state.isLoadingTemplate, state.templateData>>
      [] kind = "template-stats-today" ->
           <<state.isLoadingToday, state.todayTemplateData>>

\* the calls of an endpoint with their outcomes
CallsOf(kind, calls) ==
    {<<i, calls[i]>> : i \in {j \in DOMAIN calls : calls[j].kind = kind}}

\* C20: every step that settles a fetch leaves the loading flag of its kind
\* false; a step in which no fetch of a kind starts or settles leaves that
\* kind's flag and data as they were; and, every fetch settling in the end,
\* whenever fetches of a kind are in flight a state follows in which none is
\* and the kind's flag is false.
C20_EachFetchEndsLoading ==
    /\ [][ \A kind \in Kinds :
             /\ Cardinality(InFlight(kind)') < Cardinality(InFlight(kind)) =>
                   ~Flag(kind, app')
             /\ CallsOf(kind, fetches') = CallsOf(kind, fetches) =>
                   Slice(kind, app') = Slice(kind, app) ]_vars
    /\ \A kind \in Kinds :
          (InFlight(kind) # {}) ~> (InFlight(kind) = {} /\ ~Flag(kind, app))

\* C20 witness: the template-stats fetch has failed and its flag is false
\* while the other two fetches are in flight with their flags true.
C20_Witness ==
    /\ AllFailed("template-stats")
    /\ ~app.isLoadingTemplate
    /\ InFlight("summary") # {} /\ app.isLoading
    /\ InFlight("template-stats-today") # {} /\ app.isLoadingToday

---------------------------------------------------------------------------
(* The quick-select buttons in every time zone and at every hour *)

\* the page loads in a browser of any of the zones, at any of the minutes
InitQuick ==
    /\ pool = TRUE
    /\ logs \in AppTables
    /\ today = FirstToday
    /\ reqs = [id \in ReqIds |-> IdleReq]
    /\ app = InitialApp(today)
    /\ fetches = <<>>
    /\ browser \in [minute : BrowserMinutes, zone : Zones]

SpecQuick == InitQuick /\ [][NextApp]_vars

\* C21 (as claimed): every click on a quick-select button of d days sets
\* endDate to today (the UTC date the dashboard calls today) and startDate
\* to today minus d, and makes exactly one more fetch call, a summary fetch
\* for that range, which therefore spans d + 1 calendar dates.
C21_QuickSelectRange ==
    [][ \A d \in QuickSelectDays :
          handleQuickSelect(d) =>
            /\ app'.endDate = today
            /\ app'.startDate = today - d
            /\ fetches' = Append(fetches, Call("summary", today - d, today))
            /\ (app'.endDate - app'.startDate) + 1 = d + 1 ]_vars

---------------------------------------------------------------------------
(* The page load against a server with or without a pool *)

InitLoad ==
    /\ pool \in BOOLEAN
    /\ logs \in (IF pool THEN AppTables ELSE {EmptyBag})
    /\ today = FirstToday
    /\ reqs = [id \in ReqIds |-> IdleReq]
    /\ app = InitialApp(today)
    /\ fetches = <<>>
    /\ browser = UtcNoon

\* the effect runs and its three fetches settle
NextLoad ==
    \/ Mount
    \/ Settles

SpecLoad == InitLoad /\ [][NextLoad]_vars

\* a summary fetch has completed
SummaryFetchCompleted ==
    \E i \in DOMAIN fetches :
        fetches[i].kind = "summary" /\ fetches[i].outcome # "pending"

\* C22: once a summary fetch has completed, the dashboard holds an
\* apiResponse and its summary has length 2, whether it came from counted
\* rows, from the server's mockCounts or from the mockData of fetchData's
\* catch; the summary card does not render its no-data branch.
C22_SummaryAlwaysTwoEntries ==
    SummaryFetchCompleted =>
        /\ app.apiResponse # <<>>
        /\ Len(Head(app.apiResponse).summary) = 2
        /\ View("summary", app) # "no-data"

\* C22 witness: the fetch succeeded against a table with no matching row;
\* both counts are 0 and the card renders the chart.
C22_Witness ==
    /\ pool
    /\ SummaryFetchCompleted
    /\ app.error = <<>>
    /\ ~app.isLoading
    /\ Head(app.apiResponse).summary[1].count = 0
    /\ Head(app.apiResponse).summary[2].count = 0
    /\ View("summary", app) = "chart"

=============================================================================
